---- MODULE Spec2Model ----
(***************************************************************************)
(* A model of hydroperx_path: the lexical path algebra of src/common.rs,   *)
(* the dialect layer of src/flexible.rs and the FlexPath value of          *)
(* src/lib.rs.                                                             *)
(*                                                                         *)
(* A text is a sequence of one-character strings.  A call that panics     *)
(* returns Panic, a value that is no text.                                 *)
(***************************************************************************)
EXTENDS Integers, Sequences, FiniteSets, TLC

\* ------------------------------------------------------------------------
\* Bounds of the model
\* ------------------------------------------------------------------------

\* tokens after the start of a text, when one text is drawn
MaxTokOne == 3
\* tokens after the start of a text, when two texts are drawn
MaxTokPair == 1
\* length of the list given to resolve_n and from_n
MaxPaths == 2

\* ------------------------------------------------------------------------
\* Characters
\* ------------------------------------------------------------------------

Separators == {"/", "\\"}
\* the letters of [A-Za-z] that the inputs use
Letters == {"a", "b", "C", "D"}
\* the characters str::trim_start removes
Whitespace == {" "}

Panic == <<"panic!">>

\* FlexPathVariant
Common == "Common"
Windows == "Windows"
FlexPathVariant == {Common, Windows}

\* ------------------------------------------------------------------------
\* Text helpers
\* ------------------------------------------------------------------------

\* &s[n..] for a text of one-byte characters; panics past the end
SliceFrom(s, n) ==
    IF n > Len(s) THEN Panic ELSE SubSeq(s, n + 1, Len(s))

\* Vec::remove(j), j counted from 0
VecRemove(v, j) ==
    SubSeq(v, 1, j) \o SubSeq(v, j + 2, Len(v))

RECURSIVE Join(_, _)
\* [String]::join(sep)
Join(parts, sep) ==
    IF parts = <<>> THEN <<>>
    ELSE IF Len(parts) = 1 THEN parts[1]
    ELSE parts[1] \o sep \o Join(Tail(parts), sep)

RECURSIVE SplitFrom(_, _, _, _)
SplitFrom(path, i, cur, acc) ==
    IF i > Len(path) THEN Append(acc, cur)
    ELSE IF path[i] \in Separators
         THEN SplitFrom(path, i + 1, <<>>, Append(acc, cur))
         ELSE SplitFrom(path, i + 1, Append(cur, path[i]), acc)

\* PATH_SEPARATOR.split(path): the texts between the matches of [/\\]
PATH_SEPARATOR_split(path) == SplitFrom(path, 1, <<>>, <<>>)

RECURSIVE trim_start(_)
\* str::trim_start
trim_start(s) ==
    IF s # <<>> /\ s[1] \in Whitespace THEN trim_start(Tail(s)) ELSE s

\* ^[/\\]
STARTS_WITH_PATH_SEPARATOR(path) ==
    Len(path) >= 1 /\ path[1] \in Separators

\* ------------------------------------------------------------------------
\* src/common.rs
\* ------------------------------------------------------------------------

RECURSIVE ResolveParts(_, _, _)
ResolveParts(parts, i, r) ==
    IF i > Len(parts) THEN r
    ELSE LET p == parts[i] IN
         IF p = <<".">> THEN ResolveParts(parts, i + 1, r)
         ELSE IF p = <<".", ".">>
              THEN ResolveParts(parts, i + 1,
                                IF r # <<>> THEN SubSeq(r, 1, Len(r) - 1) ELSE r)
         ELSE IF p # <<>> THEN ResolveParts(parts, i + 1, Append(r, p))
         ELSE ResolveParts(parts, i + 1, r)

resolve_one_without_starting_sep(path) ==
    Join(ResolveParts(PATH_SEPARATOR_split(path), 1, <<>>), <<"/">>)

common_resolve_one(path) ==
    LET starts_with_slash == STARTS_WITH_PATH_SEPARATOR(path)
        r == resolve_one_without_starting_sep(path)
    IN  IF starts_with_slash THEN <<"/">> \o r ELSE r

common_resolve(path1, path2) ==
    IF STARTS_WITH_PATH_SEPARATOR(path2) THEN common_resolve_one(path2)
    ELSE LET starts_with_slash == STARTS_WITH_PATH_SEPARATOR(path1)
             path1_resolved == resolve_one_without_starting_sep(path1)
             r == IF path2 = <<>> THEN path1_resolved
                  ELSE resolve_one_without_starting_sep(
                           path1_resolved \o <<"/">> \o path2)
         IN  IF starts_with_slash THEN <<"/">> \o r ELSE r

\* remove_empty reads parts[1]: it panics on a vector of fewer than two parts
remove_empty_panics(parts) == Len(parts) < 2

remove_empty(parts) ==
    IF parts[2] = <<>> THEN VecRemove(parts, 1) ELSE parts

RECURSIVE CommonIndices(_, _, _)
\* the loop that fills common_indices: 0, 1, ... up to the first difference
CommonIndices(from_parts, to_parts, i) ==
    IF i >= Len(from_parts) \/ i >= Len(to_parts) THEN <<>>
    ELSE IF from_parts[i + 1] # to_parts[i + 1] THEN <<>>
    ELSE <<i>> \o CommonIndices(from_parts, to_parts, i + 1)

RECURSIVE RemoveCommon(_, _, _)
\* for i in common_indices.iter().rev() { parts.remove(common_indices[*i]) }
RemoveCommon(parts, common_indices, n) ==
    IF n = 0 THEN parts
    ELSE LET i == common_indices[n]
             j == common_indices[i + 1]
         IN  RemoveCommon(VecRemove(parts, j), common_indices, n - 1)

common_relative(from_path, to_path) ==
    IF ~(STARTS_WITH_PATH_SEPARATOR(from_path) /\ STARTS_WITH_PATH_SEPARATOR(to_path))
    THEN Panic
    ELSE
    LET from_all == PATH_SEPARATOR_split(common_resolve_one(from_path))
        to_all == PATH_SEPARATOR_split(common_resolve_one(to_path))
    IN  IF remove_empty_panics(from_all) \/ remove_empty_panics(to_all) THEN Panic
        ELSE
        LET from_split == remove_empty(from_all)
            to_split == remove_empty(to_all)
            common_indices == CommonIndices(from_split, to_split, 0)
            from_parts == RemoveCommon(from_split, common_indices, Len(common_indices))
            to_parts == RemoveCommon(to_split, common_indices, Len(common_indices))
            joined == Join([i \in 1..Len(from_parts) |-> <<".", ".">>] \o to_parts, <<"/">>)
            r == trim_start(joined)
        IN  IF r # <<>> /\ r[Len(r)] = "/" THEN SubSeq(r, 1, Len(r) - 1) ELSE r

\* ------------------------------------------------------------------------
\* src/flexible.rs
\* ------------------------------------------------------------------------

\* the length of the match of STARTS_WITH_WINDOWS_PATH_PREFIX, -1 without one;
\* the alternatives are tried in the order they are written
STARTS_WITH_WINDOWS_PATH_PREFIX(path) ==
    LET n == Len(path) IN
    IF n >= 4 /\ path[1] \in Separators /\ path[2] \in Separators
              /\ path[3] = "?" /\ path[4] = "\\"
    THEN IF n >= 6 /\ path[5] \in Letters /\ path[6] = ":" THEN 6 ELSE 4
    ELSE IF n >= 2 /\ path[1] \in Separators /\ path[2] \in Separators THEN 2
    ELSE IF n >= 2 /\ path[1] \in Letters /\ path[2] = ":" THEN 2
    ELSE -1

\* STARTS_WITH_WINDOWS_PATH_PREFIX_OR_SLASH whose last alternative asks for a
\* character after the separator
OrSlashWithoutEnd(path) ==
    LET n == Len(path) IN
    IF n >= 4 /\ path[1] \in Separators /\ path[2] \in Separators
              /\ path[3] = "?" /\ path[4] \in Separators
    THEN IF n >= 6 /\ path[5] \in Letters /\ path[6] = ":" THEN 6 ELSE 4
    ELSE IF n >= 2 /\ path[1] \in Separators /\ path[2] \in Separators THEN 2
    ELSE IF n >= 2 /\ path[1] \in Letters /\ path[2] = ":" THEN 2
    ELSE IF n >= 2 /\ path[1] \in Separators /\ path[2] \notin Separators THEN 2
    ELSE -1

\* the length of the match of STARTS_WITH_WINDOWS_PATH_PREFIX_OR_SLASH, -1
\* without one
STARTS_WITH_WINDOWS_PATH_PREFIX_OR_SLASH(path) ==
    LET n == Len(path) IN
    IF n >= 4 /\ path[1] \in Separators /\ path[2] \in Separators
              /\ path[3] = "?" /\ path[4] \in Separators
    THEN IF n >= 6 /\ path[5] \in Letters /\ path[6] = ":" THEN 6 ELSE 4
    ELSE IF n >= 2 /\ path[1] \in Separators /\ path[2] \in Separators THEN 2
    ELSE IF n >= 2 /\ path[1] \in Letters /\ path[2] = ":" THEN 2
    ELSE IF n >= 1 /\ path[1] \in Separators
         THEN IF n >= 2 /\ path[2] \notin Separators THEN 2
              ELSE IF n = 1 THEN 1 ELSE -1
    ELSE -1

\* ^[\\/][\\/](?:\?[\\/])?$
UNC_OR_EXT_PREFIX(s) ==
    /\ Len(s) \in {2, 4}
    /\ s[1] \in Separators
    /\ s[2] \in Separators
    /\ Len(s) = 4 => (s[3] = "?" /\ s[4] \in Separators)

\* the replacement of the prefix by nothing
RemovePrefix(path) ==
    LET m == STARTS_WITH_WINDOWS_PATH_PREFIX(path) IN
    IF m < 0 THEN path ELSE SubSeq(path, m + 1, Len(path))

\* STARTS_WITH_WINDOWS_PATH_PREFIX.replace(path, "/")
ReplacePrefix(path) ==
    LET m == STARTS_WITH_WINDOWS_PATH_PREFIX(path) IN
    IF m < 0 THEN path ELSE <<"/">> \o SubSeq(path, m + 1, Len(path))

\* the prefix of the first of the two paths that has one
ResolvePrefixOfFirst(path1, path2) ==
    LET first == IF STARTS_WITH_WINDOWS_PATH_PREFIX(path1) >= 0 THEN path1 ELSE path2
    IN  SubSeq(first, 1, STARTS_WITH_WINDOWS_PATH_PREFIX(first))

\* the prefix that the Windows branch of resolve keeps: the match in the last
\* of the two paths that has one
ResolvePrefix(path1, path2) ==
    LET last == IF STARTS_WITH_WINDOWS_PATH_PREFIX(path2) >= 0 THEN path2 ELSE path1
    IN  SubSeq(last, 1, STARTS_WITH_WINDOWS_PATH_PREFIX(last))

\* the text r that the Windows branch of resolve gets from common::resolve
ResolveStripped(path1, path2) ==
    common_resolve(ReplacePrefix(path1), ReplacePrefix(path2))

flexible_resolve(path1, path2, manipulation) ==
    IF manipulation = Common THEN common_resolve(path1, path2)
    ELSE IF STARTS_WITH_WINDOWS_PATH_PREFIX(path1) < 0
            /\ STARTS_WITH_WINDOWS_PATH_PREFIX(path2) < 0
         THEN common_resolve(path1, path2)
    ELSE LET prefix == ResolvePrefix(path1, path2)
             r == ResolveStripped(path1, path2)
         IN  IF UNC_OR_EXT_PREFIX(prefix)
             THEN IF SliceFrom(r, 1) = Panic THEN Panic ELSE prefix \o SliceFrom(r, 1)
             ELSE prefix \o r

RECURSIVE FoldResolve(_, _, _, _)
\* paths[i..].iter().fold(a, |a, b| resolve(&a, b, manipulation))
FoldResolve(a, paths, i, manipulation) ==
    IF i > Len(paths) THEN a
    ELSE IF a = Panic THEN Panic
    ELSE FoldResolve(flexible_resolve(a, paths[i], manipulation), paths, i + 1,
                     manipulation)

flexible_resolve_n(paths, manipulation) ==
    IF paths = <<>> THEN <<>>
    ELSE IF Len(paths) = 1 THEN flexible_resolve(paths[1], <<>>, manipulation)
    ELSE FoldResolve(flexible_resolve(paths[1], paths[2], manipulation), paths, 3,
                     manipulation)

flexible_resolve_one(path, manipulation) ==
    flexible_resolve_n(<<path>>, manipulation)

is_absolute(path, manipulation) ==
    IF manipulation = Common THEN STARTS_WITH_PATH_SEPARATOR(path)
    ELSE STARTS_WITH_WINDOWS_PATH_PREFIX_OR_SLASH(path) >= 0

\* the turn of the loop without the separator it puts in front
StripPrefixOnly(path, prefix) == SliceFrom(path, Len(prefix))

\* one turn of the loop over paths in the Windows branch of relative
StripPrefix(path, prefix) ==
    LET rest == SliceFrom(path, Len(prefix)) IN
    IF rest = Panic THEN Panic
    ELSE IF ~STARTS_WITH_PATH_SEPARATOR(rest) THEN <<"/">> \o rest
    ELSE rest

\* the comparison of the two prefixes by their lengths only
PrefixesDifferInLength(prefix0, prefix1) == Len(prefix0) # Len(prefix1)

\* a comparison that finds any two prefixes different
PrefixesAlwaysDiffer(prefix0, prefix1) == TRUE

\* prefix != prefixes[1]
PrefixesDiffer(prefix0, prefix1) == prefix0 # prefix1

\* STARTS_WITH_WINDOWS_PATH_PREFIX_OR_SLASH.find(path).unwrap().as_str()
AbsolutePrefix(path) ==
    SubSeq(path, 1, STARTS_WITH_WINDOWS_PATH_PREFIX_OR_SLASH(path))

flexible_relative(from_path, to_path, manipulation) ==
    IF manipulation = Common THEN common_relative(from_path, to_path)
    ELSE IF ~(is_absolute(from_path, manipulation) /\ is_absolute(to_path, manipulation))
         THEN Panic
    ELSE LET prefixes == <<AbsolutePrefix(from_path), AbsolutePrefix(to_path)>>
             prefix == prefixes[1]
         IN  IF PrefixesDiffer(prefix, prefixes[2])
             THEN flexible_resolve_one(to_path, manipulation)
             ELSE LET p0 == StripPrefix(from_path, prefix)
                      p1 == StripPrefix(to_path, prefix)
                  IN  IF p0 = Panic \/ p1 = Panic THEN Panic
                      ELSE common_relative(p0, p1)

\* ------------------------------------------------------------------------
\* src/lib.rs: FlexPath(String, FlexPathVariant)
\* ------------------------------------------------------------------------

FlexPath(text, variant) == [path |-> text, variant |-> variant]

FlexPath_new(path, variant) ==
    FlexPath(flexible_resolve_one(path, variant), variant)

FlexPath_from_n(paths, variant) ==
    FlexPath(flexible_resolve_n(paths, variant), variant)

FlexPath_is_absolute(self) ==
    is_absolute(self.path, self.variant)

FlexPath_resolve(self, path2) ==
    FlexPath(flexible_resolve(self.path, path2, self.variant), self.variant)

FlexPath_resolve_n(self, paths) ==
    LET joined == flexible_resolve_n(paths, self.variant) IN
    FlexPath(IF joined = Panic THEN Panic
             ELSE flexible_resolve(self.path, joined, self.variant),
             self.variant)

FlexPath_relative(self, to_path) ==
    flexible_relative(self.path, to_path, self.variant)

\* String::replace('/', "\\") under Windows, the text itself under Common
FlexPath_to_string(self) ==
    IF self.variant = Windows
    THEN [k \in 1..Len(self.path) |->
            IF self.path[k] = "/" THEN "\\" ELSE self.path[k]]
    ELSE self.path

\* ------------------------------------------------------------------------
\* The texts the calls are made with: a start and then some tokens
\* ------------------------------------------------------------------------

Starts ==
    { <<>>,
      <<"/">>,
      <<"\\">>,
      <<"\\", "\\">>,
      <<"D", ":">>,
      <<"\\", "\\", "?", "\\">>,
      <<"/", "/", "?", "/">>,
      <<"\\", "\\", "?", "\\", "C", ":">> }

Tokens ==
    { <<"/">>, <<"\\">>, <<".">>, <<".", ".">>, <<"a">>, <<" ">>, <<"C", ":">>,
      <<"?">>, <<":">> }

RECURSIVE Bodies(_, _)
\* the texts made of at most k tokens of T
Bodies(T, k) ==
    IF k = 0 THEN {<<>>}
    ELSE LET B == Bodies(T, k - 1) IN B \cup {b \o t : b \in B, t \in T}

Texts(S, T, k) == {s \o b : s \in S, b \in Bodies(T, k)}

RECURSIVE Lists(_, _)
\* the lists of at most n texts of T
Lists(T, n) ==
    IF n = 0 THEN {<<>>}
    ELSE LET L == Lists(T, n - 1) IN L \cup {Append(l, t) : l \in L, t \in T}

\* ------------------------------------------------------------------------
\* State: the arguments of the calls, and what the calls returned
\* ------------------------------------------------------------------------

VARIABLES
    variant,    \* the FlexPathVariant the calls are made with
    p,          \* the first text
    q,          \* the second text
    paths,      \* the list of texts for resolve_n and from_n
    fn,         \* the call made last
    self,       \* the FlexPath that was constructed
    derived,    \* the FlexPath returned by a method of self
    folded,     \* the FlexPath reached by self.resolve(x1).resolve(x2)...
    ret,        \* the text returned by the first call
    ret2,       \* the text returned by the call that follows it
    abs         \* the boolean returned by is_absolute

vars == <<variant, p, q, paths, fn, self, derived, folded, ret, ret2, abs>>

NoPath == FlexPath(<<>>, Common)

InitReturns ==
    /\ fn = "none"
    /\ self = NoPath
    /\ derived = NoPath
    /\ folded = <<>>
    /\ ret = <<>>
    /\ ret2 = <<>>
    /\ abs = FALSE

\* ------------------------------------------------------------------------
\* Calls on one text
\* ------------------------------------------------------------------------

InitOne ==
    /\ variant \in FlexPathVariant
    /\ p \in Texts(Starts, Tokens, MaxTokOne)
    /\ q = <<>>
    /\ paths = <<>>
    /\ InitReturns

ResolveOne ==
    /\ fn = "none"
    /\ ret' = flexible_resolve_one(p, variant)
    /\ fn' = "resolve_one"
    /\ UNCHANGED <<variant, p, q, paths, self, derived, folded, ret2, abs>>

ResolveOneAgain ==
    /\ fn = "resolve_one"
    /\ ret # Panic
    /\ ret2' = flexible_resolve_one(ret, variant)
    /\ fn' = "resolve_one twice"
    /\ UNCHANGED <<variant, p, q, paths, self, derived, folded, ret, abs>>

IsAbsolute ==
    /\ fn = "none"
    /\ abs' = is_absolute(p, variant)
    /\ fn' = "is_absolute"
    /\ UNCHANGED <<variant, p, q, paths, self, derived, folded, ret, ret2>>

New ==
    /\ fn = "none"
    /\ self' = FlexPath_new(p, variant)
    /\ fn' = "new"
    /\ UNCHANGED <<variant, p, q, paths, derived, folded, ret, ret2, abs>>

SelfIsAbsolute ==
    /\ fn \in {"new", "from_n"}
    /\ self.path # Panic
    /\ abs' = FlexPath_is_absolute(self)
    /\ fn' = "self.is_absolute"
    /\ UNCHANGED <<variant, p, q, paths, self, derived, folded, ret, ret2>>

SelfToString ==
    /\ fn \in {"new", "from_n"}
    /\ self.path # Panic
    /\ ret' = FlexPath_to_string(self)
    /\ fn' = "self.to_string"
    /\ UNCHANGED <<variant, p, q, paths, self, derived, folded, ret2, abs>>

\* self.relative(p), for the self that was made of p
SelfRelative ==
    /\ fn = "new"
    /\ self.path # Panic
    /\ ret' = FlexPath_relative(self, p)
    /\ fn' = "self.relative"
    /\ UNCHANGED <<variant, p, q, paths, self, derived, folded, ret2, abs>>

NextOne ==
    \/ ResolveOne
    \/ ResolveOneAgain
    \/ IsAbsolute
    \/ New
    \/ SelfIsAbsolute
    \/ SelfToString
    \/ SelfRelative

SpecOne == InitOne /\ [][NextOne]_vars

\* ------------------------------------------------------------------------
\* Properties of the calls on one text
\* ------------------------------------------------------------------------

\* C1: resolve_one is idempotent in both dialects: resolving the text that
\* resolve_one returned returns that text again.
C1_ResolveOneIdempotent ==
    fn = "resolve_one twice" => ret2 = ret

\* C3: for a text p that is absolute under the dialect,
\* FlexPath::new(p, d).relative(p) returns the empty string.
C3_RelativeToItselfIsEmpty ==
    (fn = "self.relative" /\ is_absolute(p, variant)) => ret = <<>>

\* The grammar of absolute paths, as the documentation words it
HasExtendedLengthPrefix(t) ==
    /\ Len(t) >= 4
    /\ t[1] \in Separators
    /\ t[2] \in Separators
    /\ t[3] = "?"
    /\ t[4] \in Separators

HasUncPrefix(t) ==
    Len(t) >= 2 /\ t[1] \in Separators /\ t[2] \in Separators

HasDrivePrefix(t) ==
    Len(t) >= 2 /\ t[1] \in Letters /\ t[2] = ":"

HasSingleLeadingSeparator(t) ==
    /\ Len(t) >= 1
    /\ t[1] \in Separators
    /\ Len(t) >= 2 => t[2] \notin Separators

AbsoluteGrammar(t, d) ==
    IF d = Common THEN Len(t) >= 1 /\ t[1] \in {"/", "\\"}
    ELSE \/ HasExtendedLengthPrefix(t)
         \/ HasUncPrefix(t)
         \/ HasDrivePrefix(t)
         \/ HasSingleLeadingSeparator(t)

\* C10: is_absolute is true exactly of the texts of the dialect's grammar of
\* absolute paths; a text absolute under Common is absolute under Windows, and
\* the empty text is absolute under neither.
C10_IsAbsoluteDecidesGrammar ==
    fn = "is_absolute" =>
        /\ abs = AbsoluteGrammar(p, variant)
        /\ (variant = Common /\ abs) => is_absolute(p, Windows)
        /\ p = <<>> => ~abs

\* is_absolute has answered for a text of each kind of the Windows grammar,
\* here for a lone separator
C10_Witness ==
    /\ fn = "is_absolute"
    /\ variant = Windows
    /\ p = <<"\\">>
    /\ abs

\* ------------------------------------------------------------------------
\* Calls on two texts
\* ------------------------------------------------------------------------

TokensPair ==
    { <<"/">>, <<"\\">>, <<".">>, <<".", ".">>, <<"a">>, <<" ">>, <<"C", ":">> }

InitPair ==
    /\ variant \in FlexPathVariant
    /\ p \in Texts(Starts, TokensPair, MaxTokPair)
    /\ q \in Texts(Starts, TokensPair, MaxTokPair)
    /\ paths = <<>>
    /\ InitReturns

Relative ==
    /\ fn = "none"
    /\ ret' = flexible_relative(p, q, variant)
    /\ fn' = "relative"
    /\ UNCHANGED <<variant, p, q, paths, self, derived, folded, ret2, abs>>

\* resolve(p, relative(p, q))
ResolveBack ==
    /\ fn = "relative"
    /\ ret # Panic
    /\ ret2' = flexible_resolve(p, ret, variant)
    /\ fn' = "resolve back"
    /\ UNCHANGED <<variant, p, q, paths, self, derived, folded, ret, abs>>

Resolve ==
    /\ fn = "none"
    /\ ret' = flexible_resolve(p, q, variant)
    /\ fn' = "resolve"
    /\ UNCHANGED <<variant, p, q, paths, self, derived, folded, ret2, abs>>

NextPair ==
    \/ Relative
    \/ ResolveBack
    \/ Resolve

SpecPair == InitPair /\ [][NextPair]_vars

\* ------------------------------------------------------------------------
\* Properties of the calls on two texts
\* ------------------------------------------------------------------------

\* The kind of prefix a text starts with, by the grammar of absolute paths
PrefixKind(t) ==
    IF HasExtendedLengthPrefix(t) THEN "extended"
    ELSE IF HasUncPrefix(t) THEN "unc"
    ELSE IF HasDrivePrefix(t) THEN "drive"
    ELSE IF HasSingleLeadingSeparator(t) THEN "separator"
    ELSE "none"

\* The drive letter a prefix names, "" when it names none
DriveOf(t) ==
    IF PrefixKind(t) = "drive" THEN t[1]
    ELSE IF PrefixKind(t) = "extended" /\ Len(t) >= 6 /\ t[5] \in Letters /\ t[6] = ":"
         THEN t[5]
    ELSE ""

\* The prefix of a text by the grammar: the separator alone when the text
\* starts with a single separator
GrammarPrefix(t) ==
    LET k == PrefixKind(t) IN
    IF k = "extended" THEN SubSeq(t, 1, IF DriveOf(t) # "" THEN 6 ELSE 4)
    ELSE IF k \in {"unc", "drive"} THEN SubSeq(t, 1, 2)
    ELSE IF k = "separator" THEN SubSeq(t, 1, 1)
    ELSE <<>>

\* The host of a text with a UNC prefix: its first segment after the prefix
HostOf(t) == PATH_SEPARATOR_split(SubSeq(t, 3, Len(t)))[1]

\* p and q are absolute and share their prefix
SharePrefix(a, b, d) ==
    IF d = Common
    THEN STARTS_WITH_PATH_SEPARATOR(a) /\ STARTS_WITH_PATH_SEPARATOR(b)
    ELSE /\ PrefixKind(a) # "none"
         /\ PrefixKind(a) = PrefixKind(b)
         /\ GrammarPrefix(a) = GrammarPrefix(b)

\* C2: for absolute p and q that share their prefix,
\* resolve(p, relative(p, q)) is resolve_one(q).
C2_RoundTrip ==
    (fn = "resolve back" /\ SharePrefix(p, q, variant))
        => ret2 = flexible_resolve_one(q, variant)

\* C4: relative panics exactly when one of its two arguments is not absolute
\* under the dialect; with two absolute arguments it returns a text.
C4_RelativePanicsIffNotAbsolute ==
    fn = "relative" =>
        (ret = Panic <=> ~(is_absolute(p, variant) /\ is_absolute(q, variant)))

\* relative has returned a text for two prefixed absolute paths that are
\* nothing but their prefix
C4_Witness ==
    /\ fn = "relative"
    /\ variant = Windows
    /\ p = <<"D", ":">>
    /\ q = <<"D", ":">>
    /\ ret = <<>>

\* the two prefixes name different drives, or are of different kinds
DifferentDriveOrKind(a, b) ==
    /\ PrefixKind(a) # "none"
    /\ PrefixKind(b) # "none"
    /\ \/ PrefixKind(a) # PrefixKind(b)
       \/ DriveOf(a) # "" /\ DriveOf(b) # "" /\ DriveOf(a) # DriveOf(b)

\* C6: under Windows, relative between absolute paths whose prefixes name
\* different drives or are of different kinds returns resolve_one(to_path).
C6_CrossDriveFallback ==
    (fn = "relative" /\ variant = Windows /\ DifferentDriveOrKind(p, q))
        => ret = flexible_resolve_one(q, Windows)

\* relative("D:/", "C:") has returned "C:/"
C6_Witness ==
    /\ fn = "relative"
    /\ variant = Windows
    /\ p = <<"D", ":", "/">>
    /\ q = <<"C", ":">>
    /\ ret = <<"C", ":", "/">>

\* a segment that is a name: not empty, not "." and not ".."
IsName(segment) == segment \notin {<<>>, <<".">>, <<".", ".">>}

\* both texts have a UNC prefix and name different hosts
DifferentUncHosts(a, b) ==
    /\ PrefixKind(a) = "unc"
    /\ PrefixKind(b) = "unc"
    /\ IsName(HostOf(a))
    /\ IsName(HostOf(b))
    /\ HostOf(a) # HostOf(b)

\* C7 as claimed: under Windows, relative between two UNC paths that name
\* different hosts returns resolve_one(to_path).
C7_DifferentHostsReturnToPath ==
    (fn = "relative" /\ variant = Windows /\ DifferentUncHosts(p, q))
        => ret = flexible_resolve_one(q, Windows)

\* C7 as amended: under Windows, two UNC paths that name different hosts and
\* write their prefix with the same two separators share that prefix, and
\* relative returns the common relative path of the texts after it, the hosts
\* being first segments; it returns resolve_one(to_path) only when the two
\* prefixes are written with different separators.
C7_DifferentHostsShareUncPrefix ==
    (fn = "relative" /\ variant = Windows /\ DifferentUncHosts(p, q))
        => ret = IF SubSeq(p, 1, 2) = SubSeq(q, 1, 2)
                 THEN common_relative(<<"/">> \o SubSeq(p, 3, Len(p)),
                                      <<"/">> \o SubSeq(q, 3, Len(q)))
                 ELSE flexible_resolve_one(q, Windows)

\* relative("\\\\a", "\\\\C:") has returned "../C:"
C7_Witness ==
    /\ fn = "relative"
    /\ variant = Windows
    /\ p = <<"\\", "\\", "a">>
    /\ q = <<"\\", "\\", "C", ":">>
    /\ ret = <<".", ".", "/", "C", ":">>

\* C9: when path2 is absolute under the dialect, resolve(path1, path2) is
\* resolve_one(path2), whatever path1 is.
C9_AbsoluteSecondWins ==
    (fn = "resolve" /\ is_absolute(q, variant))
        => ret = flexible_resolve_one(q, variant)

\* ------------------------------------------------------------------------
\* Calls on a FlexPath and a list of texts
\* ------------------------------------------------------------------------

TextsFold ==
    { <<>>,
      <<"a">>,
      <<".", ".">>,
      <<"/">>,
      <<"\\", "a">>,
      <<"a", "/", "b">>,
      <<"C", ":">>,
      <<"D", ":", "/", "a">>,
      <<"\\", "\\">>,
      <<"\\", "\\", "?", "\\">>,
      <<"/", "/", "?", "/">>,
      <<"\\", "\\", "?", "\\", "C", ":">> }

InitFold ==
    /\ variant \in FlexPathVariant
    /\ p \in TextsFold
    /\ q = <<>>
    /\ paths \in Lists(TextsFold, MaxPaths)
    /\ InitReturns

FromN ==
    /\ fn = "none"
    /\ self' = FlexPath_from_n(paths, variant)
    /\ fn' = "from_n"
    /\ UNCHANGED <<variant, p, q, paths, derived, folded, ret, ret2, abs>>

SelfResolveN ==
    /\ fn = "new"
    /\ self.path # Panic
    /\ derived' = FlexPath_resolve_n(self, paths)
    /\ fn' = "self.resolve_n"
    /\ UNCHANGED <<variant, p, q, paths, self, folded, ret, ret2, abs>>

\* the FlexPath that self.resolve(x1)...resolve(xn) has reached after the
\* steps made so far
Folded == IF folded = <<>> THEN self ELSE folded[Len(folded)]

\* one more .resolve(x) of self.resolve(x1).resolve(x2)...
SelfResolve ==
    /\ fn \in {"self.resolve_n", "self.resolve"}
    /\ Len(folded) < Len(paths)
    /\ Folded.path # Panic
    /\ folded' = Append(folded, FlexPath_resolve(Folded, paths[Len(folded) + 1]))
    /\ fn' = "self.resolve"
    /\ UNCHANGED <<variant, p, q, paths, self, derived, ret, ret2, abs>>

NextFold ==
    \/ New
    \/ FromN
    \/ IsAbsolute
    \/ SelfIsAbsolute
    \/ SelfToString
    \/ SelfResolveN
    \/ SelfResolve

SpecFold == InitFold /\ [][NextFold]_vars

\* ------------------------------------------------------------------------
\* Properties of the calls on a FlexPath and a list of texts
\* ------------------------------------------------------------------------

\* the texts a call of resolve can be given in this state
ResolveArguments ==
    {p, self.path, derived.path, <<>>}
        \cup {paths[k] : k \in 1..Len(paths)}
        \cup {folded[k].path : k \in 1..Len(folded)}

\* the Windows branch of resolve slices r[1..] of a text that starts with "/"
SliceIsOfRootedText(path1, path2) ==
    (/\ \/ STARTS_WITH_WINDOWS_PATH_PREFIX(path1) >= 0
        \/ STARTS_WITH_WINDOWS_PATH_PREFIX(path2) >= 0
     /\ UNC_OR_EXT_PREFIX(ResolvePrefix(path1, path2)))
        => LET r == ResolveStripped(path1, path2) IN r # <<>> /\ r[1] = "/"

\* C5: resolve_one, resolve, resolve_n, is_absolute, construction and
\* rendering return a value for every input and never panic, and the Windows
\* branch of resolve takes r[1..] only of a text that starts with "/".
C5_TotalOperations ==
    /\ self.path # Panic
    /\ derived.path # Panic
    /\ ret # Panic
    /\ \A k \in 1..Len(folded) : folded[k].path # Panic
    /\ abs \in BOOLEAN
    /\ variant = Windows =>
          \A path1 \in ResolveArguments \ {Panic} :
             \A path2 \in ResolveArguments \ {Panic} :
                SliceIsOfRootedText(path1, path2)

\* resolve_n has spliced the resolved text after a bare extended-length
\* marker: from_n(["\\\\?\\", "a"]) is "\\\\?\\a"
C5_Witness ==
    /\ fn = "from_n"
    /\ variant = Windows
    /\ paths = << <<"\\", "\\", "?", "\\">>, <<"a">> >>
    /\ self.path = <<"\\", "\\", "?", "\\", "a">>

\* C8: P.resolve_n([x1, ..., xn]) is P.resolve(x1).resolve(x2)...resolve(xn),
\* and P for the empty list.
C8_ResolveNIsLeftFold ==
    (fn \in {"self.resolve_n", "self.resolve"} /\ Len(folded) = Len(paths))
        => derived = Folded

\* ------------------------------------------------------------------------
\* More properties of the calls on two texts
\* ------------------------------------------------------------------------

IsNonEmpty(segment) == segment # <<>>

\* the non-empty segments of a text
NonEmptySegments(t) == SelectSeq(PATH_SEPARATOR_split(t), IsNonEmpty)

RECURSIVE CommonPrefixLength(_, _)
\* the length of the longest common prefix of two segment sequences
CommonPrefixLength(F, T) ==
    IF F = <<>> \/ T = <<>> \/ F[1] # T[1] THEN 0
    ELSE 1 + CommonPrefixLength(Tail(F), Tail(T))

\* (|F| - k) copies of ".." and then T[k..], joined with "/"
MinimalRelative(from_path, to_path) ==
    LET F == NonEmptySegments(common_resolve_one(from_path))
        T == NonEmptySegments(common_resolve_one(to_path))
        k == CommonPrefixLength(F, T)
    IN  Join([i \in 1..(Len(F) - k) |-> <<".", ".">>] \o SubSeq(T, k + 1, Len(T)),
             <<"/">>)

\* C11: the Common relative of two absolute paths is the minimal relative
\* path: one ".." for each segment of from below the common ancestor and then
\* the segments of to below it, joined with "/", without a leading or a
\* trailing separator, whatever text the segments are.
C11_RelativeIsMinimal ==
    (/\ fn = "relative"
     /\ variant = Common
     /\ STARTS_WITH_PATH_SEPARATOR(p)
     /\ STARTS_WITH_PATH_SEPARATOR(q))
        => /\ ret = MinimalRelative(p, q)
           /\ ret # <<>> => (ret[1] \notin Separators /\ ret[Len(ret)] \notin Separators)

\* The prefix of STARTS_WITH_WINDOWS_PATH_PREFIX as its three alternatives
\* read: the extended-length one ends with a backslash
ResolvePrefixLength(t) ==
    IF HasUncPrefix(t) /\ Len(t) >= 4 /\ t[3] = "?" /\ t[4] = "\\"
    THEN IF Len(t) >= 6 /\ t[5] \in Letters /\ t[6] = ":" THEN 6 ELSE 4
    ELSE IF HasUncPrefix(t) \/ HasDrivePrefix(t) THEN 2
    ELSE 0

\* a text with its prefix replaced by one "/"
WithPrefixAsSlash(t) ==
    IF ResolvePrefixLength(t) = 0 THEN t
    ELSE <<"/">> \o SubSeq(t, ResolvePrefixLength(t) + 1, Len(t))

\* a bare UNC or a bare extended-length marker: separators, and "?" at most
IsBareMarker(prefix) ==
    \A k \in 1..Len(prefix) : prefix[k] \in Separators \cup {"?"}

\* what C13 says resolve returns under Windows
PrefixedResolve(path1, path2) ==
    IF ResolvePrefixLength(path1) = 0 /\ ResolvePrefixLength(path2) = 0
    THEN common_resolve(path1, path2)
    ELSE LET chosen == IF ResolvePrefixLength(path2) > 0 THEN path2 ELSE path1
             prefix == SubSeq(chosen, 1, ResolvePrefixLength(chosen))
             rest == common_resolve(WithPrefixAsSlash(path1), WithPrefixAsSlash(path2))
         IN  IF IsBareMarker(prefix) THEN prefix \o Tail(rest) ELSE prefix \o rest

C14_DialectsAgreeWithoutPrefix ==
    (/\ fn = "relative"
     /\ variant = Windows
     /\ PrefixKind(p) = "separator"
     /\ PrefixKind(q) = "separator")
        => /\ ret = flexible_relative(p, q, Common)
           /\ AbsolutePrefix(p) = SubSeq(p, 1, 1)
           /\ AbsolutePrefix(q) = SubSeq(q, 1, 1)

\* ------------------------------------------------------------------------
\* The text a FlexPath stores
\* ------------------------------------------------------------------------

TextsValue == TextsFold \cup { <<".", "/", "C", ":">> }

InitValue ==
    /\ variant \in FlexPathVariant
    /\ p \in TextsValue
    /\ q = <<>>
    /\ paths \in Lists(TextsValue, MaxPaths)
    /\ InitReturns

SpecValue == InitValue /\ [][NextFold]_vars

\* the text of a FlexPath is resolved: resolve_one returns it as it is, and
\* none of its segments is "." or ".."
IsResolved(value) ==
    /\ flexible_resolve_one(value.path, value.variant) = value.path
    /\ \A k \in DOMAIN PATH_SEPARATOR_split(value.path) :
          PATH_SEPARATOR_split(value.path)[k] \notin {<<".">>, <<".", ".">>}

\* C12: the text of every FlexPath made by new or from_n and of every FlexPath
\* derived from it by resolve and resolve_n is resolved under its dialect;
\* the derived value has the dialect of the receiver, and the receiver stays
\* as it was constructed.
C12_StoredTextIsResolved ==
    /\ IsResolved(self)
    /\ IsResolved(derived)
    /\ \A k \in 1..Len(folded) :
          IsResolved(folded[k]) /\ folded[k].variant = self.variant
    /\ fn \in {"self.resolve_n", "self.resolve"} =>
          /\ derived.variant = self.variant
          /\ self = FlexPath_new(p, variant)

====
